---- MODULE Spec2Model ----
(***************************************************************************)
(* A model of motd's text engine: EntrySeeker (src/main.rs), which indexes *)
(* the '%'-terminated entries of a message file in one scan and retrieves  *)
(* them by seeking, and EntryParser (src/parse.rs), which tokenizes one    *)
(* entry.  Bytes and characters are their code points.  The byte source is *)
(* a file of ASCII bytes whose reads and seeks succeed.                    *)
(*                                                                         *)
(* Spec runs the seeker with any get_entry calls, ParseSpec the parser.    *)
(* IterSpec and NthSpec run the iterator Entries over the seeker, MainSpec *)
(* the paths of main from the options to get_entry; in IterSpec and        *)
(* MainSpec the reader may fail in a get_entry call.                       *)
(***************************************************************************)
EXTENDS Integers, Sequences, FiniteSets, TLC

\* ------------------------------------------------------------------ bounds
\* Longest source of the exhaustive part of Init.
MaxLen == 5
\* Size of the read buffer of EntrySeeker::new.  The program's buffer holds
\* 1024 bytes (main.rs:49); the model scales it down so that sources longer
\* than one chunk are within MaxLen.  No chunk of the example sources ends
\* between a backslash and a delimiter, as none does in the program, which
\* reads each of them in one chunk.
BufLen == 3

\* --------------------------------------------------------------- constants
ENTRY_DELIMITER == 37
BACKSLASH == 92
NEWLINE == 10

\* Bytes of the inputs that no arm of the scan or of the parser names.
Letter == [a |-> 97, b |-> 98, c |-> 99, f |-> 102, o |-> 111, q |-> 113,
           space |-> 32]
LetterA == Letter.a
LetterB == Letter.b
LetterF == Letter.f
LetterO == Letter.o
LetterQ == Letter.q
SPACE == Letter.space

\* u8::is_ascii_whitespace: space, tab, line feed, form feed, carriage return.
IsAsciiWhitespace(b) == b \in {32, 9, 10, 12, 13}
\* char::is_whitespace on the ASCII range (str::trim): the above and VT.
IsWhitespace(c) == c \in {32, 9, 10, 11, 12, 13}

\* The bytes the exhaustive sources are built from: one of each class the
\* scan tells apart (delimiter, backslash, newline, other whitespace, other).
Alphabet == {LetterA, BACKSLASH, ENTRY_DELIMITER, NEWLINE, SPACE}

Min(a, b) == IF a < b THEN a ELSE b

BoundedSeq(S, n) == UNION {[1..k -> S] : k \in 0..n}

\* The sources of the specification's examples.
\* The source  a\%b%
SourceEscaped == <<LetterA, BACKSLASH, ENTRY_DELIMITER, LetterB, ENTRY_DELIMITER>>
\* The source  a%b
SourceTrailing == <<LetterA, ENTRY_DELIMITER, LetterB>>
\* The source  \nfoo%
SourceSecondLine == <<NEWLINE, LetterF, LetterO, LetterO, ENTRY_DELIMITER>>

ExampleSources == {SourceEscaped, SourceTrailing, SourceSecondLine}

Sources == BoundedSeq(Alphabet, MaxLen) \cup ExampleSources

\* ------------------------------------------------------------------- state
VARIABLES
    src,            \* the bytes of the byte source (the message file)
    pc,             \* "read" | "scan" (inside EntrySeeker::new), "ready", "panicked"
    rpos,           \* position of the reader in the source
    buf,            \* the bytes the last read call put in buf (buf[..count])
    bi,             \* index in buf of the next byte of the for loop
    escape,         \* new: escape
    entry_pos,      \* new: entry_pos
    entry_len,      \* new: entry_len
    current_line,   \* new: current_line
    entry_line,     \* new: entry_line, <<>> for None and <<n>> for Some(n)
    entries,        \* new: entries, then self.entry_positions
    last,           \* the last get_entry call: its argument and what it returned
    returned,       \* every Entry a get_entry call has returned so far
    msg,            \* parse: msg, the text given to parse_message
    ppc,            \* "chars" | "done" (inside EntryParser::parse), "idle"
    pi,             \* index in msg of the next character of msg.chars()
    state,          \* EntryParser.state
    last_state,     \* EntryParser.last_state, <<>> for None and <<s>> for Some(s)
    tokens,         \* parse: tokens
    result,         \* what parse_message returned
    iter,           \* Entries: whether one holds the seeker, and Entries.index
    item,           \* the last call on Entries: where it started, what it returned
    yielded,        \* the items next has yielded since Entries::new or nth
    rounds,         \* the number of Entries made over the seeker so far
    args,           \* main: the options of CliArgs that main has looked at
    mpc             \* main: "idle" | "validate" | "returned" | "exited" |
                    \*       "printed" | "failed"

seekerVars == <<src, pc, rpos, buf, bi, escape, entry_pos, entry_len,
                current_line, entry_line, entries, last, returned>>

parserVars == <<msg, ppc, pi, state, last_state, tokens, result>>

entriesVars == <<iter, item, yielded, rounds>>

mainVars == <<args, mpc>>

callerVars == <<entriesVars, mainVars>>

vars == <<seekerVars, parserVars, callerVars>>

scanVars == <<buf, bi, escape, entry_pos, entry_len, current_line, entry_line>>

\* Entry::default()
DefaultEntry == [msg |-> <<>>, line_number |-> 0, entry_number |-> 0]

NoCall == [kind |-> "none", index |-> 0, entry |-> DefaultEntry]

\* ParseState::Text(s), ParseState::InPath(s), ParseState::Escape
TextState(s) == [kind |-> "Text", s |-> s]
InPathState(s) == [kind |-> "InPath", s |-> s]
EscapeState == [kind |-> "Escape", s |-> <<>>]

NoResult == [kind |-> "none", tokens |-> <<>>, err |-> <<>>]

\* No Entries yet, and no call on one.
NoIter == [live |-> FALSE, index |-> 0]
Item(op, n, from, some, value) ==
    [op |-> op, n |-> n, from |-> from, some |-> some, value |-> value]
NoItem == Item("none", 0, 0, <<>>, 0)

\* CliArgs::default()
NoArgs == [validate |-> FALSE, entry |-> <<>>, line_num |-> <<>>]

\* main has not gone past EntrySeeker::new, and nothing iterates.
CallerIdle ==
    /\ iter = NoIter
    /\ item = NoItem
    /\ yielded = <<>>
    /\ rounds = 0
    /\ args = NoArgs
    /\ mpc = "idle"

\* EntryParser::new, and no parse under way.
ParserIdle ==
    /\ msg = <<>>
    /\ ppc = "idle"
    /\ pi = 1
    /\ state = TextState(<<>>)
    /\ last_state = <<>>
    /\ tokens = <<>>
    /\ result = NoResult

Init ==
    /\ ParserIdle
    /\ CallerIdle
    /\ src \in Sources
    /\ pc = "read"
    /\ rpos = 0
    /\ buf = <<>>
    /\ bi = 1
    /\ escape = FALSE
    /\ entry_pos = 0
    /\ entry_len = 0
    /\ current_line = 1
    /\ entry_line = <<>>
    /\ entries = <<>>
    /\ last = NoCall
    /\ returned = {}

\* --------------------------------------------------------- EntrySeeker::new
\* reader.read(&mut buf): the next bytes of the source, at most a buffer full;
\* 0 at the end of the source.
ReadCount(pos) == Min(BufLen, Len(src) - pos)

\* The value of escape at the start of the for loop over one chunk.
ChunkEscape(esc) == FALSE

\* A scan that marks the entry's line at its first byte, whitespace or not.
MarkLineAtFirstByte(el, cl, byte) == IF el = <<>> THEN <<cl>> ELSE el

\* if entry_line.is_none() && !byte.is_ascii_whitespace()
MarkLine(el, cl, byte) ==
    IF el = <<>> /\ ~IsAsciiWhitespace(byte) THEN <<cl>> ELSE el

\* entry_line.unwrap_or(current_line)
UnwrapOr(el, cl) == IF el # <<>> THEN el[1] ELSE cl

\* The delimiter arm pushes a SeekPos: &ENTRY_DELIMITER => if !escape
Closes(byte, esc) == byte = ENTRY_DELIMITER /\ ~esc

\* The value the match leaves in escape.
EscapeAfter(byte) == byte = BACKSLASH

\* current_line after the match.
LineAfter(cl, byte) == IF byte = NEWLINE THEN cl + 1 ELSE cl

\* A SeekPos whose len leaves the delimiter out.
SeekPosWithoutDelimiter(start, len, line) ==
    [start_pos |-> start, len |-> len - 1, line_number |-> line]

SeekPos(start, len, line) ==
    [start_pos |-> start, len |-> len, line_number |-> line]

\* let count = reader.read(&mut buf)?; if count == 0 { break; } ... Ok(EntrySeeker)
Read ==
    /\ pc = "read"
    /\ LET count == ReadCount(rpos) IN
         IF count = 0
         THEN /\ pc' = "ready"
              /\ UNCHANGED <<rpos, buf, bi, escape>>
         ELSE /\ buf' = SubSeq(src, rpos + 1, rpos + count)
              /\ rpos' = rpos + count
              /\ bi' = 1
              /\ escape' = ChunkEscape(escape)
              /\ pc' = "scan"
    /\ UNCHANGED <<src, entry_pos, entry_len, current_line, entry_line,
                   entries, last, returned>>
    /\ UNCHANGED parserVars
    /\ UNCHANGED callerVars

\* One iteration of  for byte in buf.iter().take(count)
ScanByte ==
    /\ pc = "scan"
    /\ LET byte == buf[bi]
           len1 == entry_len + 1
           el   == MarkLine(entry_line, current_line, byte)
       IN  /\ IF Closes(byte, escape)
              THEN /\ entries' = Append(entries,
                                   SeekPos(entry_pos, len1, UnwrapOr(el, current_line)))
                   /\ entry_pos' = entry_pos + len1
                   /\ entry_len' = 0
                   /\ entry_line' = <<>>
              ELSE /\ entry_len' = len1
                   /\ entry_line' = el
                   /\ UNCHANGED <<entries, entry_pos>>
           /\ current_line' = LineAfter(current_line, byte)
           /\ escape' = EscapeAfter(byte)
    /\ bi' = bi + 1
    /\ pc' = IF bi = Len(buf) THEN "read" ELSE "scan"
    /\ UNCHANGED <<src, rpos, buf, last, returned>>
    /\ UNCHANGED parserVars
    /\ UNCHANGED callerVars

\* EntrySeeker::count
count == Len(entries)

\* ---------------------------------------------------- EntrySeeker::get_entry
RECURSIVE TrimStart(_)
TrimStart(s) ==
    IF s # <<>> /\ IsWhitespace(Head(s)) THEN TrimStart(Tail(s)) ELSE s

RECURSIVE TrimEnd(_)
TrimEnd(s) ==
    IF s # <<>> /\ IsWhitespace(s[Len(s)])
    THEN TrimEnd(SubSeq(s, 1, Len(s) - 1))
    ELSE s

\* str::trim
Trim(s) == TrimEnd(TrimStart(s))

\* if msg.len() > 0 { msg.truncate(msg.len() - 1); }
ChopDelimiter(text) ==
    IF Len(text) > 0 THEN SubSeq(text, 1, Len(text) - 1) ELSE text

\* A get_entry that reads from wherever the reader is.
SeekNowhere(pos, start) == pos

\* self.reader.seek(SeekFrom::Start(seek_pos.start_pos)): the new position.
SeekStart(pos, start) == start

\* A get_entry that never takes the early return.
NeverEmpty(v) == FALSE

\* self.entry_positions.is_empty()
IsEmpty(v) == v = <<>>

\* Drops every backslash that stands before a delimiter.
RECURSIVE Unescape(_)
Unescape(s) ==
    IF s = <<>> THEN <<>>
    ELSE IF Len(s) >= 2 /\ s[1] = BACKSLASH /\ s[2] = ENTRY_DELIMITER
    THEN <<ENTRY_DELIMITER>> \o Unescape(SubSeq(s, 3, Len(s)))
    ELSE <<s[1]>> \o Unescape(Tail(s))

\* A get_entry that resolves the escaped delimiters of the text it returns.
MakeEntryUnescaped(bytes, seek_pos, index) ==
    [msg |-> Unescape(Trim(ChopDelimiter(bytes))),
     line_number |-> seek_pos.line_number,
     entry_number |-> index]

\* The Entry get_entry builds from the bytes it read.
MakeEntry(bytes, seek_pos, index) ==
    [msg |-> Trim(ChopDelimiter(bytes)),
     line_number |-> seek_pos.line_number,
     entry_number |-> index]

Call(kind, index, entry) == [kind |-> kind, index |-> index, entry |-> entry]

\* get_entry(index), for every index a caller may pass.
GetEntry(index) ==
    /\ pc = "ready"
    /\ IF IsEmpty(entries)
       THEN \* return Ok(Entry::default())
            /\ last' = Call("ok", index, DefaultEntry)
            /\ returned' = returned \cup {DefaultEntry}
            /\ UNCHANGED <<pc, rpos>>
       ELSE IF index >= Len(entries)
       THEN \* .expect("index for line should be in range") panics
            /\ last' = Call("panic", index, DefaultEntry)
            /\ pc' = "panicked"
            /\ UNCHANGED <<rpos, returned>>
       ELSE LET seek_pos == entries[index + 1]
                from     == SeekStart(rpos, seek_pos.start_pos)
            IN  IF from + seek_pos.len > Len(src)
                THEN \* read_exact fails with UnexpectedEof, returned by `?`
                     /\ last' = Call("err", index, DefaultEntry)
                     /\ rpos' = Len(src)
                     /\ UNCHANGED <<pc, returned>>
                ELSE LET bytes == SubSeq(src, from + 1, from + seek_pos.len)
                         entry == MakeEntry(bytes, seek_pos, index)
                     IN  /\ last' = Call("ok", index, entry)
                         /\ returned' = returned \cup {entry}
                         /\ rpos' = from + seek_pos.len
                         /\ UNCHANGED pc
    /\ UNCHANGED <<src, entries>>
    /\ UNCHANGED scanVars
    /\ UNCHANGED parserVars

Get == \E index \in 0..MaxLen : GetEntry(index) /\ UNCHANGED callerVars

Next == Read \/ ScanByte \/ Get

Spec == Init /\ [][Next]_vars

\* ------------------------------------------------------------- EntryParser
LBRACKET == 91
RBRACKET == 93

\* const ENTRY_DELIMITER_CHAR: char = ENTRY_DELIMITER as char
ENTRY_DELIMITER_CHAR == ENTRY_DELIMITER

\* Longest text of the exhaustive part of ParseInit.
MaxMsgLen == 5

\* One character of each class process_char tells apart.
Chars == {LBRACKET, RBRACKET, BACKSLASH, ENTRY_DELIMITER_CHAR, LetterA}

\* The texts of the specification's examples.
\* The text  [img.png]hello
MessageImage == <<91, 105, 109, 103, 46, 112, 110, 103, 93, 104, 101, 108, 108, 111>>
\* The text  a\[b
MessageEscapedOpen == <<LetterA, BACKSLASH, LBRACKET, LetterB>>
\* The text  [abc
MessageOpen == <<LBRACKET, LetterA, LetterB, Letter.c>>
\* The text  a]b
MessageStrayClose == <<LetterA, RBRACKET, LetterB>>
\* The text  a\qb
MessageBadEscape == <<LetterA, BACKSLASH, LetterQ, LetterB>>

ExampleMessages ==
    {MessageImage, MessageEscapedOpen, MessageOpen, MessageStrayClose,
     MessageBadEscape}

Messages == BoundedSeq(Chars, MaxMsgLen) \cup ExampleMessages

\* Token::Text(s), Token::Resource(s)
TextToken(s) == [kind |-> "Text", s |-> s]
ResourceToken(s) == [kind |-> "Resource", s |-> s]

\* ParseError::InvalidEscape(ch), UnescapedChar(ch), UnexpectedEnd
InvalidEscape(ch) == [kind |-> "InvalidEscape", ch |-> ch]
UnescapedChar(ch) == [kind |-> "UnescapedChar", ch |-> ch]
UnexpectedEnd == [kind |-> "UnexpectedEnd", ch |-> 0]

\* What one call of process_char leaves and returns: the parser's two fields,
\* Ok(Some(token)) as token = <<token>>, Ok(None) as token = <<>>, Err(e) as
\* err = <<e>>; panic is set where the code panics.
Step(st, ls, token, err) ==
    [state |-> st, last_state |-> ls, token |-> token, err |-> err,
     panic |-> FALSE]

\* An escape arm that leaves the delimiter out.
IsEscapableBracketOrBackslash(ch) == ch \in {BACKSLASH, LBRACKET, RBRACKET}

\* The characters a backslash may escape: '\\' | '[' | ']' | ENTRY_DELIMITER_CHAR
IsEscapable(ch) == ch \in {BACKSLASH, LBRACKET, RBRACKET, ENTRY_DELIMITER_CHAR}

\* A '[' arm that emits the text before it also when it is empty.
TextAlways(s) == <<TextToken(s)>>

\* (!s.is_empty()).then_some(Token::Text(s.clone()))
TextIfAny(s) == IF s # <<>> THEN <<TextToken(s)>> ELSE <<>>

\* A Text arm that enters Escape without keeping the state it leaves.
InTextForgetful(st, ls, ch) ==
    IF ch = LBRACKET THEN Step(InPathState(<<>>), ls, TextIfAny(st.s), <<>>)
    ELSE IF ch = BACKSLASH THEN Step(EscapeState, ls, <<>>, <<>>)
    ELSE IF ch = RBRACKET THEN Step(st, ls, <<>>, <<UnescapedChar(ch)>>)
    ELSE Step(TextState(Append(st.s, ch)), ls, <<>>, <<>>)

\* ParseState::Text(s) => match ch
InText(st, ls, ch) ==
    IF ch = LBRACKET THEN Step(InPathState(<<>>), ls, TextIfAny(st.s), <<>>)
    ELSE IF ch = BACKSLASH THEN Step(EscapeState, <<st>>, <<>>, <<>>)
    ELSE IF ch = RBRACKET THEN Step(st, ls, <<>>, <<UnescapedChar(ch)>>)
    ELSE Step(TextState(Append(st.s, ch)), ls, <<>>, <<>>)

\* ParseState::InPath(s) => match ch
InPath(st, ls, ch) ==
    IF ch = RBRACKET
    THEN Step(TextState(<<>>), ls, <<ResourceToken(st.s)>>, <<>>)
    ELSE IF ch = BACKSLASH THEN Step(EscapeState, <<st>>, <<>>, <<>>)
    ELSE IF ch = LBRACKET THEN Step(st, ls, <<>>, <<UnescapedChar(ch)>>)
    ELSE Step(InPathState(Append(st.s, ch)), ls, <<>>, <<>>)

\* An escape arm that resumes a fresh Text state, whatever it interrupted.
InEscapeFresh(st, ls, ch) ==
    IF IsEscapable(ch)
    THEN Step(TextState(<<ch>>), <<>>, <<>>, <<>>)
    ELSE Step(st, ls, <<>>, <<InvalidEscape(ch)>>)

\* ParseState::Escape => match ch
InEscape(st, ls, ch) ==
    IF IsEscapable(ch)
    THEN LET taken == IF ls # <<>> THEN ls[1] ELSE TextState(<<>>)
         IN  IF taken.kind = "Escape"
             THEN [Step(st, <<>>, <<>>, <<>>) EXCEPT !.panic = TRUE]
             ELSE Step([taken EXCEPT !.s = Append(taken.s, ch)], <<>>, <<>>, <<>>)
    ELSE Step(st, ls, <<>>, <<InvalidEscape(ch)>>)

\* EntryParser::process_char
process_char(st, ls, ch) ==
    IF st.kind = "Text" THEN InText(st, ls, ch)
    ELSE IF st.kind = "InPath" THEN InPath(st, ls, ch)
    ELSE InEscape(st, ls, ch)

\* Result<Vec<Token>, ParseError>
Ok(toks) == [kind |-> "Ok", tokens |-> toks, err |-> <<>>]
Err(e) == [kind |-> "Err", tokens |-> <<>>, err |-> <<e>>]
Panicked == [kind |-> "panic", tokens |-> <<>>, err |-> <<>>]

\* An end of parse that fails only on an open reference.
parse_end_unless_in_path(st, toks) ==
    IF st.kind = "InPath" THEN Err(UnexpectedEnd)
    ELSE Ok(IF st.s # <<>> THEN Append(toks, TextToken(st.s)) ELSE toks)

\* An end of parse that forgets the text still in the accumulator.
parse_end_without_text(st, toks) ==
    IF st.kind = "Text" THEN Ok(toks) ELSE Err(UnexpectedEnd)

\* The end of parse, after the loop over the characters.
parse_end(st, toks) ==
    IF st.kind = "Text"
    THEN Ok(IF st.s # <<>> THEN Append(toks, TextToken(st.s)) ELSE toks)
    ELSE Err(UnexpectedEnd)

ParseInit ==
    /\ msg \in Messages
    /\ ppc = "chars"
    /\ pi = 1
    /\ state = TextState(<<>>)
    /\ last_state = <<>>
    /\ tokens = <<>>
    /\ result = NoResult
    /\ CallerIdle
    /\ src = <<>>
    /\ pc = "idle"
    /\ rpos = 0
    /\ buf = <<>>
    /\ bi = 1
    /\ escape = FALSE
    /\ entry_pos = 0
    /\ entry_len = 0
    /\ current_line = 1
    /\ entry_line = <<>>
    /\ entries = <<>>
    /\ last = NoCall
    /\ returned = {}

\* One iteration of  for ch in msg.chars()
ParseChar ==
    /\ ppc = "chars"
    /\ pi <= Len(msg)
    /\ LET r == process_char(state, last_state, msg[pi])
       IN  IF r.panic
           THEN /\ result' = Panicked
                /\ ppc' = "done"
                /\ UNCHANGED <<pi, state, last_state, tokens>>
           ELSE IF r.err # <<>>
           THEN \* the `?` returns the error; tokens is dropped
                /\ result' = Err(r.err[1])
                /\ ppc' = "done"
                /\ UNCHANGED <<pi, state, last_state, tokens>>
           ELSE /\ state' = r.state
                /\ last_state' = r.last_state
                /\ tokens' = tokens \o r.token
                /\ pi' = pi + 1
                /\ UNCHANGED <<ppc, result>>
    /\ UNCHANGED msg
    /\ UNCHANGED seekerVars
    /\ UNCHANGED callerVars

\* The end of the loop: the final state decides the result.
ParseEnd ==
    /\ ppc = "chars"
    /\ pi > Len(msg)
    /\ result' = parse_end(state, tokens)
    /\ ppc' = "done"
    /\ UNCHANGED <<msg, pi, state, last_state, tokens>>
    /\ UNCHANGED seekerVars
    /\ UNCHANGED callerVars

ParseNext == ParseChar \/ ParseEnd

ParseSpec == ParseInit /\ [][ParseNext]_vars

\* parse_message as a function of the text: the same steps, run to the end.
RECURSIVE ParseFrom(_, _, _, _, _)
ParseFrom(m, i, st, ls, toks) ==
    IF i > Len(m) THEN parse_end(st, toks)
    ELSE LET r == process_char(st, ls, m[i])
         IN  IF r.panic THEN Panicked
             ELSE IF r.err # <<>> THEN Err(r.err[1])
             ELSE ParseFrom(m, i + 1, r.state, r.last_state, toks \o r.token)

parse_message(m) == ParseFrom(m, 1, TextState(<<>>), <<>>, <<>>)

\* ------------------------------------------------------------------ Entries
\* Most iterations started over one seeker.
MaxRounds == 2

\* What the reader does in a get_entry call: nothing wrong, seek fails, or
\* read_exact fails.
IoOutcomes == {"ok", "seek", "read"}

\* A reader that never fails.
Reliable == {"ok"}

\* get_entry(index) over a reader that may fail: the `?` after seek and after
\* read_exact returns the error. How many bytes a failing read_exact has
\* consumed is unspecified.
GetEntryIo(index, io) ==
    IF io = "ok" \/ IsEmpty(entries) \/ index >= Len(entries)
    THEN GetEntry(index)
    ELSE LET seek_pos == entries[index + 1] IN
         /\ pc = "ready"
         /\ last' = Call("err", index, DefaultEntry)
         /\ IF io = "seek"
            THEN rpos' = rpos
            ELSE rpos' \in seek_pos.start_pos..(seek_pos.start_pos + seek_pos.len)
         /\ UNCHANGED <<pc, returned, src, entries>>
         /\ UNCHANGED scanVars
         /\ UNCHANGED parserVars

\* Entries::new(seeker): Self { seeker, index: 0 }
NewEntries ==
    /\ iter' = [live |-> TRUE, index |-> 0]
    /\ item' = Item("new", 0, 0, <<>>, 0)
    /\ yielded' = <<>>
    /\ rounds' = rounds + 1

\* An index that next leaves where it is.
StayAt(k) == k

\* self.index += 1
Advance(k) == k + 1

\* The body of Entries::next when self.index is k; op and n name the call it
\* is the body of.
NextFrom(k, io, op, n) ==
    IF k >= count
    THEN \* return None
         /\ iter' = [iter EXCEPT !.index = k]
         /\ item' = Item(op, n, iter.index, <<>>, 0)
         /\ UNCHANGED seekerVars
         /\ UNCHANGED parserVars
    ELSE \* Some(self.seeker.get_entry(self.index))
         /\ GetEntryIo(k, io)
         /\ iter' = [iter EXCEPT !.index = Advance(k)]
         /\ item' = Item(op, n, iter.index, <<last'>>, 0)

\* The items of the run of next calls, with the one just returned.
YieldedWith(it) == IF it.some = <<>> THEN yielded ELSE Append(yielded, it.some[1])

\* entry_seeker.entries(), also over a seeker that was iterated before.
EntriesNew ==
    /\ pc = "ready"
    /\ rounds < MaxRounds
    /\ NewEntries
    /\ UNCHANGED seekerVars
    /\ UNCHANGED parserVars
    /\ UNCHANGED mainVars

\* Entries::next, over a reader with the outcomes ios
NextOver(ios) ==
    /\ pc = "ready"
    /\ iter.live
    /\ \E io \in ios : NextFrom(iter.index, io, "next", 0)
    /\ yielded' = YieldedWith(item')
    /\ UNCHANGED rounds
    /\ UNCHANGED mainVars

\* Entries::next
EntriesNext == NextOver(IoOutcomes)

\* Entries::next, the reader never failing
EntriesNextReliable == NextOver(Reliable)

\* Entries::nth(n): self.index = n; self.next(), the reader never failing
EntriesNth ==
    /\ pc = "ready"
    /\ iter.live
    /\ \E n \in 0..MaxLen : \E io \in Reliable : NextFrom(n, io, "nth", n)
    /\ yielded' = <<>>
    /\ UNCHANGED rounds
    /\ UNCHANGED mainVars

\* Entries::count(self): self.seeker.count(); the iterator is consumed.
EntriesCount ==
    /\ pc = "ready"
    /\ iter.live
    /\ item' = Item("count", 0, iter.index, <<>>, count)
    /\ iter' = NoIter
    /\ UNCHANGED <<yielded, rounds>>
    /\ UNCHANGED seekerVars
    /\ UNCHANGED parserVars
    /\ UNCHANGED mainVars

\* The sources the iterations run over: every arrangement of records, empty
\* ones included, with and without a part after the last delimiter.
IterSources == BoundedSeq({LetterA, ENTRY_DELIMITER}, MaxLen)

IterInit == Init /\ src \in IterSources

\* A seeker iterated with entries() and next alone.
IterNext == Read \/ ScanByte \/ EntriesNew \/ EntriesNext

IterSpec == IterInit /\ [][IterNext]_vars

\* A seeker iterated with all the methods Entries defines.
NthNext ==
    Read \/ ScanByte \/ EntriesNew \/ EntriesNextReliable \/ EntriesNth \/ EntriesCount

NthSpec == IterInit /\ [][NthNext]_vars

\* --------------------------------------------------------------------- main
\* The numbers given to --entry and --line.
MaxArg == MaxLen + 1

\* if entry_seeker.count() == 0 { ... return Ok(()); }
MainEmpty ==
    /\ pc = "ready" /\ mpc = "idle"
    /\ count = 0
    /\ mpc' = "returned"
    /\ UNCHANGED args
    /\ UNCHANGED entriesVars
    /\ UNCHANGED seekerVars
    /\ UNCHANGED parserVars

\* if args.validate { return validate_file(entry_seeker); }, up to the for
\* loop of validate_file, which iterates entry_seeker.entries()
MainValidate ==
    /\ pc = "ready" /\ mpc = "idle"
    /\ count > 0
    /\ args' = [NoArgs EXCEPT !.validate = TRUE]
    /\ mpc' = "validate"
    /\ NewEntries
    /\ UNCHANGED seekerVars
    /\ UNCHANGED parserVars

\* What one iteration of the for loop of validate_file does with the item:
\* the end of the loop returns Ok(()), a failure of next and a failure of
\* parse_message exit with status 1.
AfterItem(it) ==
    IF it.some = <<>> THEN "returned"
    ELSE IF it.some[1].kind # "ok" THEN "exited"
    ELSE IF parse_message(it.some[1].entry.msg).kind # "Ok" THEN "exited"
    ELSE "validate"

\* One iteration of  for entry in entry_seeker.entries()
ValidateStep ==
    /\ pc = "ready" /\ mpc = "validate"
    /\ \E io \in IoOutcomes : NextFrom(iter.index, io, "next", 0)
    /\ yielded' = YieldedWith(item')
    /\ mpc' = AfterItem(item')
    /\ UNCHANGED <<rounds, args>>

\* An --entry test that lets the number count() through.
EntryBeyondCount(entry_num, c) == entry_num > c

\* if entry_num as usize >= entry_seeker.count()
EntryTooLarge(entry_num, c) == entry_num >= c

\* entry_seeker.get_entry(index)? in main: the error is returned from main,
\* the entry goes to the printer.
MainGet(index, io) ==
    /\ GetEntryIo(index, io)
    /\ mpc' = IF last'.kind = "ok" THEN "printed" ELSE "failed"

\* if let Some(entry_num) = args.entry { ... }
MainEntry ==
    /\ pc = "ready" /\ mpc = "idle"
    /\ count > 0
    /\ \E entry_num \in 0..MaxArg :
          /\ args' = [NoArgs EXCEPT !.entry = <<entry_num>>]
          /\ IF EntryTooLarge(entry_num, count)
             THEN \* std::process::exit(1)
                  /\ mpc' = "exited"
                  /\ UNCHANGED seekerVars
                  /\ UNCHANGED parserVars
             ELSE \E io \in IoOutcomes : MainGet(entry_num, io)
    /\ UNCHANGED entriesVars

\* The for loop over entry_positions().enumerate() from descriptor i on:
\* entry_num = i; if pos.line_number >= line_num { break; }
RECURSIVE LineSearch(_, _, _)
LineSearch(i, entry_num, line_num) ==
    IF i >= count THEN entry_num
    ELSE IF entries[i + 1].line_number >= line_num THEN i
    ELSE LineSearch(i + 1, i, line_num)

\* else if let Some(line_num) = args.line_num { ... }
MainLine ==
    /\ pc = "ready" /\ mpc = "idle"
    /\ count > 0
    /\ \E line_num \in 0..MaxArg :
          LET entry_num == LineSearch(0, 0, line_num) IN
          /\ args' = [NoArgs EXCEPT !.line_num = <<line_num>>]
          /\ IF entry_num >= count
             THEN \* std::process::exit(1)
                  /\ mpc' = "exited"
                  /\ UNCHANGED seekerVars
                  /\ UNCHANGED parserVars
             ELSE \E io \in IoOutcomes : MainGet(entry_num, io)
    /\ UNCHANGED entriesVars

\* else { rand::thread_rng().gen_range(0..entry_seeker.count()) ... }
MainRandom ==
    /\ pc = "ready" /\ mpc = "idle"
    /\ count > 0
    /\ args' = NoArgs
    /\ \E index \in 0..(count - 1) : \E io \in IoOutcomes : MainGet(index, io)
    /\ UNCHANGED entriesVars

MainNext ==
    \/ Read
    \/ ScanByte
    \/ MainEmpty
    \/ MainValidate
    \/ ValidateStep
    \/ MainEntry
    \/ MainLine
    \/ MainRandom

MainSpec == Init /\ [][MainNext]_vars

\* ================================================================== claims
\* The positions (from 1) of the unescaped delimiters of s: the delimiter
\* bytes whose preceding byte is not a backslash.
UnescapedDelimiters(s) ==
    {i \in 1..Len(s) : s[i] = ENTRY_DELIMITER /\ (i = 1 \/ s[i - 1] # BACKSLASH)}

\* The position of the last unescaped delimiter of s, 0 when it has none.
LastUnescapedDelimiter(s) ==
    LET D == UnescapedDelimiters(s) \cup {0}
    IN  CHOOSE p \in D : \A q \in D : q <= p

\* The number of newline bytes of s before position p.
NewlinesBefore(s, p) == Cardinality({j \in 1..(p - 1) : s[j] = NEWLINE})

\* The first position in lo..hi of s that holds no ASCII whitespace (hi when
\* there is none).
FirstNonWhitespace(s, lo, hi) ==
    LET P == {p \in lo..hi : ~IsAsciiWhitespace(s[p])} \cup {hi}
    IN  CHOOSE p \in P : \A q \in P : p <= q

\* s without its whitespace.
NonWhitespace(s) == SelectSeq(s, LAMBDA c : ~IsWhitespace(c))

\* The bytes of the source a SeekPos spans, but the last one.
SpanBody(sp) == SubSeq(src, sp.start_pos + 1, sp.start_pos + sp.len - 1)

SeekerDone == pc \in {"ready", "panicked"}

\* C1: once EntrySeeker::new has returned, count() is the number of unescaped
\* delimiter bytes of the source, whatever the length of the source.
C1_CountIsUnescapedDelimiters ==
    SeekerDone => count = Cardinality(UnescapedDelimiters(src))

\* C2 (as the claim states it): for the source a\%b% count() is 1 and get(0)
\* returns the text a%b, the backslash consumed.
C2_GetResolvesEscape ==
    (pc = "ready" /\ src = SourceEscaped /\ last.kind = "ok" /\ last.index = 0)
        => /\ count = 1
           /\ last.entry.msg = <<LetterA, ENTRY_DELIMITER, LetterB>>

\* C2 (amended): for the source a\%b% count() is 1 and get(0) returns the text
\* a\%b with the backslash kept, which parse_message then reads as the one
\* token Text(a%b); and every get returns all the bytes of the record's span
\* but its closing delimiter and whitespace.
C2_GetKeepsEscape ==
    /\ (pc = "ready" /\ src = SourceEscaped)
          => /\ count = 1
             /\ last.kind = "ok" /\ last.index = 0
                   => /\ last.entry.msg =
                            <<LetterA, BACKSLASH, ENTRY_DELIMITER, LetterB>>
                      /\ parse_message(last.entry.msg) =
                            Ok(<<TextToken(<<LetterA, ENTRY_DELIMITER, LetterB>>)>>)
    /\ (pc = "ready" /\ last.kind = "ok" /\ last.index < count)
          => NonWhitespace(last.entry.msg)
                = NonWhitespace(SpanBody(entries[last.index + 1]))

C2_Witness ==
    /\ pc = "ready" /\ src = SourceEscaped
    /\ last.kind = "ok" /\ last.index = 0
    /\ count = 1

\* C3: no descriptor reaches beyond the last unescaped delimiter of the
\* source, no get reads beyond it, and a source without an unescaped
\* delimiter has no descriptor at all; the source a%b has one record, a.
C3_TrailingPartialNeverIndexed ==
    SeekerDone =>
        /\ \A i \in 1..count :
              entries[i].start_pos + entries[i].len <= LastUnescapedDelimiter(src)
        /\ (last.kind = "ok" /\ count > 0) => rpos <= LastUnescapedDelimiter(src)
        /\ UnescapedDelimiters(src) = {} => count = 0
        /\ src = SourceTrailing =>
              /\ count = 1
              /\ (last.kind = "ok" /\ last.index = 0) => last.entry.msg = <<LetterA>>

\* The number of bytes the for loops of the scan have consumed so far, while
\* the scan runs.
Consumed == IF pc = "scan" THEN rpos - Len(buf) + (bi - 1) ELSE rpos

\* C4: the line_number of every indexed record is 1 plus the number of
\* newlines of the source before the record's first byte that is not ASCII
\* whitespace; that byte is the closing delimiter itself when only
\* whitespace precedes it, and the line is then the value the line counter
\* has when the delimiter is read, the counter being 1 plus the number of
\* newlines consumed.
C4_LineNumber ==
    /\ \A i \in 1..Len(entries) :
          LET sp == entries[i]
              first == FirstNonWhitespace(src, sp.start_pos + 1,
                                          sp.start_pos + sp.len)
          IN  sp.line_number = 1 + NewlinesBefore(src, first)
    /\ pc \in {"read", "scan"} =>
          current_line = 1 + NewlinesBefore(src, Consumed + 1)

C4_Witness ==
    /\ pc = "ready" /\ src = SourceSecondLine
    /\ count = 1 /\ entries[1].line_number = 2

\* C5: the index is contiguous at every point: the first descriptor starts
\* at 0, each next one where the one before ends, every len is at least 1,
\* every span ends with a delimiter byte, the record in progress starts where
\* the last descriptor ends, and during the scan entry_pos + entry_len is the
\* number of bytes consumed.
C5_Contiguous ==
    /\ Len(entries) > 0 => entries[1].start_pos = 0
    /\ \A i \in 1..(Len(entries) - 1) :
          entries[i + 1].start_pos = entries[i].start_pos + entries[i].len
    /\ \A i \in 1..Len(entries) :
          /\ entries[i].len >= 1
          /\ entries[i].start_pos + entries[i].len <= Len(src)
          /\ src[entries[i].start_pos + entries[i].len] = ENTRY_DELIMITER
    /\ pc \in {"read", "scan"} =>
          /\ entry_pos + entry_len = Consumed
          /\ entry_pos = IF Len(entries) = 0 THEN 0
                         ELSE entries[Len(entries)].start_pos
                                + entries[Len(entries)].len

C5_Witness ==
    /\ pc = "scan" /\ Len(entries) >= 2 /\ entry_len > 0
    /\ entries[2].start_pos > 0

\* C6: a get_entry call leaves the index alone, succeeds for every index
\* below count() wherever earlier calls left the reader, and returns for one
\* index the same Entry every time.
C6_GetIdempotent ==
    [][pc = "ready" =>
          /\ entries' = entries
          /\ (last'.kind # "none" /\ last'.index < Len(entries))
                => /\ last'.kind = "ok"
                   /\ last'.entry.entry_number = last'.index
                   /\ last'.entry \in returned'
          /\ \A e1, e2 \in returned' :
                e1.entry_number = e2.entry_number => e1 = e2]_vars

\* get(0) called after get(1) has moved the reader to the end of record 1.
C6_Witness ==
    /\ pc = "ready" /\ count >= 2
    /\ last.kind = "ok" /\ last.index = 0
    /\ \E e \in returned : e.entry_number = 1
    /\ rpos = entries[1].len

\* C7: with an empty index every get_entry call, whatever its index, returns
\* an Entry with empty text and line number 0, does not panic and leaves the
\* reader where the scan left it.
C7_EmptyIndexGet ==
    (count = 0 /\ pc \notin {"read", "scan"}) =>
        /\ pc = "ready"
        /\ rpos = Len(src)
        /\ last.kind \in {"none", "ok"}
        /\ last.entry.msg = <<>>
        /\ last.entry.line_number = 0

C7_Witness ==
    /\ pc = "ready" /\ count = 0 /\ src # <<>>
    /\ last.kind = "ok" /\ last.index = 2
    /\ last.entry.msg = <<>>

\* ------------------------------------------------------ claims on the parser
\* The number of backslashes that stand in a row right before position i of m.
BackslashesBefore(m, i) ==
    LET R == {k \in 0..(i - 1) : \A j \in (i - k)..(i - 1) : m[j] = BACKSLASH}
    IN  CHOOSE k \in R : \A l \in R : l <= k

\* The escape rule: a character is escaped when an odd number of backslashes
\* stands right before it.
IsEscaped(m, i) == BackslashesBefore(m, i) % 2 = 1

\* The positions of the unescaped brackets of m.
Opens(m) == {i \in 1..Len(m) : m[i] = LBRACKET /\ ~IsEscaped(m, i)}
Closings(m) == {i \in 1..Len(m) : m[i] = RBRACKET /\ ~IsEscaped(m, i)}
Brackets(m) == Opens(m) \cup Closings(m)

\* 1 inside a reference, 0 outside, just before position i.
Depth(m, i) ==
    Cardinality({j \in Opens(m) : j < i}) - Cardinality({j \in Closings(m) : j < i})

\* The state table's errors, by position.
IsInvalidEscapeAt(m, i) == IsEscaped(m, i) /\ ~(m[i] \in {BACKSLASH, LBRACKET, RBRACKET, ENTRY_DELIMITER})
IsStrayCloseAt(m, i) == i \in Closings(m) /\ Depth(m, i) = 0
IsNestedOpenAt(m, i) == i \in Opens(m) /\ Depth(m, i) = 1

ErrorPositions(m) ==
    {i \in 1..Len(m) :
        IsInvalidEscapeAt(m, i) \/ IsStrayCloseAt(m, i) \/ IsNestedOpenAt(m, i)}

FirstError(m) == CHOOSE i \in ErrorPositions(m) : \A j \in ErrorPositions(m) : i <= j

ErrorAt(m, i) ==
    IF IsInvalidEscapeAt(m, i) THEN InvalidEscape(m[i]) ELSE UnescapedChar(m[i])

\* The characters of m[lo..hi] without the backslashes that escape.
RECURSIVE Literal(_, _, _)
Literal(m, lo, hi) ==
    IF lo > hi THEN <<>>
    ELSE (IF m[lo] = BACKSLASH /\ ~IsEscaped(m, lo) THEN <<>> ELSE <<m[lo]>>)
            \o Literal(m, lo + 1, hi)

\* The position of the k-th unescaped bracket of m; 0 for k = 0 and
\* Len(m) + 1 beyond the last one.
NthBracket(m, k) ==
    IF k = 0 THEN 0
    ELSE IF k > Cardinality(Brackets(m)) THEN Len(m) + 1
    ELSE CHOOSE p \in Brackets(m) :
            Cardinality({q \in Brackets(m) : q < p}) = k - 1

\* The token of the k-th span between brackets (from 0): the spans of odd k
\* are the bracketed ones.
SpanToken(m, k) ==
    LET s == Literal(m, NthBracket(m, k) + 1, NthBracket(m, k + 1) - 1)
    IN  IF k % 2 = 1 THEN <<ResourceToken(s)>>
        ELSE IF s # <<>> THEN <<TextToken(s)>>
        ELSE <<>>

\* The tokens of the spans 0 .. k-1 of m, in source order.
RECURSIVE SpanTokens(_, _)
SpanTokens(m, k) ==
    IF k = 0 THEN <<>> ELSE SpanTokens(m, k - 1) \o SpanToken(m, k - 1)

\* The tokens of the spans a bracket has closed, and those of all the spans.
ClosedTokens(m) == SpanTokens(m, Cardinality(Brackets(m)))
AllTokens(m) == SpanTokens(m, Cardinality(Brackets(m)) + 1)

\* C8: a successful parse returns, in source order, one Resource for each
\* bracketed span and one Text for each non-empty run outside brackets; while
\* the text is read, tokens holds the tokens of the spans closed so far.
C8_TokensInSourceOrder ==
    /\ ppc = "chars" => tokens = ClosedTokens(SubSeq(msg, 1, pi - 1))
    /\ (ppc = "done" /\ result.kind = "Ok") => result.tokens = AllTokens(msg)

C8_Witness ==
    /\ ppc = "done" /\ msg = MessageImage
    /\ result = Ok(<<ResourceToken(<<105, 109, 103, 46, 112, 110, 103>>),
                     TextToken(<<104, 101, 108, 108, 111>>)>>)

\* C9: parse fails on a character exactly when the text has a character the
\* state table rejects; it then stops at the first such character, reports
\* it with its kind of error, and returns no token.
C9_FirstErrorReported ==
    ppc = "done" =>
        /\ ErrorPositions(msg) # {} =>
              /\ result = [kind |-> "Err", tokens |-> <<>>,
                           err |-> <<ErrorAt(msg, FirstError(msg))>>]
              /\ pi = FirstError(msg)
        /\ ErrorPositions(msg) = {} =>
              (result.kind = "Ok" \/ result.err = <<UnexpectedEnd>>)

\* A ']' rejected after a token has been closed.
C9_Witness ==
    /\ ppc = "done" /\ tokens # <<>>
    /\ result.kind = "Err" /\ result.err = <<UnescapedChar(RBRACKET)>>
    /\ result.tokens = <<>>

\* C10: when no character is rejected, parse succeeds exactly when the final
\* state is Text, which is when the text ends neither inside a reference nor
\* on an escaping backslash, and fails with UnexpectedEnd otherwise; the
\* empty text gives no token.
C10_EndOfInput ==
    (ppc = "done" /\ ErrorPositions(msg) = {}) =>
        LET open == Depth(msg, Len(msg) + 1) = 1
            dangling == IsEscaped(msg, Len(msg) + 1)
        IN  /\ pi = Len(msg) + 1
            /\ state.kind = "Escape" <=> dangling
            /\ state.kind = "InPath" <=> (open /\ ~dangling)
            /\ result.kind = "Ok" <=> state.kind = "Text"
            /\ result = Err(UnexpectedEnd) <=> state.kind \in {"InPath", "Escape"}
            /\ msg = <<>> => result = Ok(<<>>)

C10_Witness ==
    /\ ppc = "done" /\ msg = MessageOpen
    /\ state.kind = "InPath" /\ result = Err(UnexpectedEnd)

\* The characters read so far, the position of the last unescaped bracket
\* among them and the state the text read so far leaves open.
ReadSoFar(m, i) == SubSeq(m, 1, i - 1)
LastBracket(m) == NthBracket(m, Cardinality(Brackets(m)))
OpenKind(m) == IF Depth(m, Len(m) + 1) = 1 THEN "InPath" ELSE "Text"
OpenAccumulator(m) == Literal(m, LastBracket(m) + 1, Len(m))

\* C11: a step that reads '\', '[', ']' or '%' in state Escape raises no
\* error, emits no token and resumes the state the backslash interrupted
\* (Text outside a reference, InPath inside one) with that character appended
\* to what was accumulated before the backslash; the text a\[b gives the
\* single token Text(a[b).
C11_EscapeResumes ==
    [][/\ (ppc = "chars" /\ pi <= Len(msg) /\ state.kind = "Escape"
             /\ msg[pi] \in {BACKSLASH, LBRACKET, RBRACKET, ENTRY_DELIMITER})
          => LET before == ReadSoFar(msg, pi - 1)
             IN  /\ ppc' = "chars"
                 /\ tokens' = tokens
                 /\ state'.kind = OpenKind(before)
                 /\ state'.s = Append(OpenAccumulator(before), msg[pi])
       /\ (ppc' = "done" /\ msg = MessageEscapedOpen)
          => result' = Ok(<<TextToken(<<LetterA, LBRACKET, LetterB>>)>>)]_vars

\* An escaped ']' read inside a reference that already holds a character.
C11_Witness ==
    /\ ppc = "chars" /\ pi = 5
    /\ SubSeq(msg, 1, 4) = <<LBRACKET, LetterA, BACKSLASH, RBRACKET>>
    /\ state = InPathState(<<LetterA, RBRACKET>>)
    /\ tokens = <<>>

\* s with a backslash before each of its '\', '[', ']' and '%'.
RECURSIVE EscapeAll(_)
EscapeAll(s) ==
    IF s = <<>> THEN <<>>
    ELSE (IF s[1] \in {BACKSLASH, LBRACKET, RBRACKET, ENTRY_DELIMITER}
          THEN <<BACKSLASH, s[1]>> ELSE <<s[1]>>) \o EscapeAll(Tail(s))

\* The tokens written back as text.
RECURSIVE Render(_)
Render(toks) ==
    IF toks = <<>> THEN <<>>
    ELSE (IF toks[1].kind = "Resource"
          THEN <<LBRACKET>> \o EscapeAll(toks[1].s) \o <<RBRACKET>>
          ELSE EscapeAll(toks[1].s)) \o Render(Tail(toks))

\* m with a backslash put before each of its unescaped delimiters.
RECURSIVE EscapeBareDelimiters(_, _)
EscapeBareDelimiters(m, i) ==
    IF i > Len(m) THEN <<>>
    ELSE (IF m[i] = ENTRY_DELIMITER /\ ~IsEscaped(m, i)
          THEN <<BACKSLASH, m[i]>> ELSE <<m[i]>>) \o EscapeBareDelimiters(m, i + 1)

HasBareDelimiter(m) ==
    \E i \in 1..Len(m) : m[i] = ENTRY_DELIMITER /\ ~IsEscaped(m, i)

\* C12 (as the claim states it): the tokens of a successful parse, written
\* back, are the original text.
C12_RoundTrip ==
    (ppc = "done" /\ result.kind = "Ok") => Render(result.tokens) = msg

\* C12 (amended): the tokens of a successful parse, written back, are the
\* original text with a backslash before each '%' the text left unescaped
\* (the original text itself when it has none), and parse to the same tokens.
C12_RoundTripUpToDelimiter ==
    (ppc = "done" /\ result.kind = "Ok") =>
        /\ Render(result.tokens) = EscapeBareDelimiters(msg, 1)
        /\ ~HasBareDelimiter(msg) => Render(result.tokens) = msg
        /\ parse_message(Render(result.tokens)) = result

\* A text with a reference, an escape and an unescaped delimiter.
C12_Witness ==
    /\ ppc = "done" /\ result.kind = "Ok"
    /\ HasBareDelimiter(msg)
    /\ \E i \in 1..Len(result.tokens) : result.tokens[i].kind = "Resource"
    /\ \E i \in 1..Len(msg) : IsEscaped(msg, i)

ClosingPositions == {entries[i].start_pos + entries[i].len : i \in 1..Len(entries)}

\* C16: the index does not depend on the read chunks: at every byte of the
\* scan the escape flag tells whether the byte before it in the source is a
\* backslash, also when that byte came with the read before, and the records
\* end at the delimiters that no backslash precedes.
C16_ChunkIndependent ==
    /\ pc = "scan" =>
          (escape <=> (Consumed >= 1 /\ src[Consumed] = BACKSLASH))
    /\ SeekerDone => ClosingPositions = UnescapedDelimiters(src)

\* C19: a delimiter closes a record exactly when the tokenizer's rule reads it
\* as unescaped, that is when an even number of backslashes stands right
\* before it (a run of backslashes never reaches back over the delimiter that
\* closed the record before).
C19_SeekerAgreesWithTokenizer ==
    SeekerDone =>
        ClosingPositions =
            {p \in 1..Len(src) : src[p] = ENTRY_DELIMITER /\ ~IsEscaped(src, p)}

\* ------------------------------------------------------- claims on Entries
\* The Entry that get_entry(k) returns when the reader does not fail.
EntryOf(k) ==
    [msg |-> Trim(SpanBody(entries[k + 1])),
     line_number |-> entries[k + 1].line_number,
     entry_number |-> k]

\* C13: an iteration with entries() and next yields count() items, the k-th
\* being what get_entry(k) returns (the Entry of record k, or the failure of
\* the reader), in that order and none twice; next then returns None at
\* every later call and leaves the index alone; and entries() over a seeker
\* that was iterated before starts again at index 0.
C13_Iteration ==
    iter.live =>
        /\ iter.index = Len(yielded)
        /\ iter.index <= count
        /\ \A k \in 1..Len(yielded) :
              /\ yielded[k].index = k - 1
              /\ yielded[k].kind \in {"ok", "err"}
              /\ yielded[k].kind = "ok" => yielded[k].entry = EntryOf(k - 1)
        /\ (item.op = "next" /\ item.some = <<>>) => Len(yielded) = count
        /\ (item.op = "next" /\ item.from >= count) =>
              /\ item.some = <<>>
              /\ iter.index = item.from
        /\ (item.op = "next" /\ item.from < count) =>
              /\ item.some = <<yielded[item.from + 1]>>
              /\ iter.index = item.from + 1
        /\ item.op = "new" => (iter.index = 0 /\ yielded = <<>>)

\* A second iteration over a seeker of two records or more has yielded them
\* all and has been told the end.
C13_Witness ==
    /\ rounds >= 2
    /\ count >= 2
    /\ item.op = "next" /\ item.some = <<>>
    /\ Len(yielded) = count
    /\ \A k \in 1..count : yielded[k].kind = "ok"

\* C14: a failure of get_entry ends the sequence: the iteration yields no
\* record after the item that carries a failure.
C14_FailureEndsSequence ==
    iter.live =>
        \A j, k \in 1..Len(yielded) :
            (j < k /\ yielded[j].kind = "err") => yielded[k].kind # "ok"

\* The number of items next still yields from index k.
Remaining(k) == IF k < count THEN count - k ELSE 0

\* C20: nth(n) called at index k returns what the (n+1)-th next from there
\* would return, the item of record k + n and never one of a record before
\* k, or None when there is none; count() called at index k returns the
\* number of items next would still yield, count minus k.
C20_NthAndCountFollowNext ==
    /\ item.op = "nth" =>
          LET target == item.from + item.n IN
          /\ target < count =>
                /\ item.some # <<>>
                /\ item.some[1].index = target
                /\ iter.index = target + 1
          /\ target >= count => item.some = <<>>
    /\ item.op = "count" => item.value = Remaining(item.from)

\* ---------------------------------------------------------- claims on main
\* C17: main never calls get_entry with an empty index or with an index out
\* of range, so the abort of get_entry is never reached: an empty index makes
\* main return before any call, an --entry number of count() or more exits
\* before the call, the entry number of --entry is passed as it is, the
\* --line search, the random pick and the iteration of --validate stay below
\* count().
C17_GetInRange ==
    /\ pc # "panicked"
    /\ last.kind # "panic"
    /\ last.kind # "none" => (count > 0 /\ last.index < count)
    /\ (SeekerDone /\ count = 0) => (last = NoCall /\ mpc \in {"idle", "returned"})
    /\ (mpc = "exited" /\ args.entry # <<>>) =>
          (args.entry[1] >= count /\ last = NoCall)
    /\ (mpc \in {"printed", "failed"} /\ args.entry # <<>>) =>
          last.index = args.entry[1]
    /\ mpc \in {"printed", "failed"} => last.index \in 0..(count - 1)
    /\ iter.live =>
          /\ iter.index <= count
          /\ \A k \in 1..Len(yielded) : yielded[k].index < count

\* main has printed the last of two or more entries for a --line number
\* beyond the line of every entry.
C17_Witness ==
    /\ mpc = "printed"
    /\ count >= 2
    /\ args.line_num # <<>>
    /\ \A i \in 1..count : entries[i].line_number < args.line_num[1]
    /\ last.kind = "ok" /\ last.index = count - 1

\* The line_number of the entry with index i.
LineOf(i) == entries[i + 1].line_number

\* The lines of entry i hold line n: from its own line_number (that line
\* always included) up to the line before the line_number of the next entry;
\* the lines of the last entry have no end.
ContainsLine(i, n) ==
    /\ LineOf(i) <= n
    /\ \/ i = count - 1
       \/ n < LineOf(i + 1)
       \/ n = LineOf(i)

\* C18: with --line N main passes to get_entry an entry whose lines hold
\* line N when there is one, and the last entry when N lies beyond the
\* line_number of every entry.
C18_LineSelectsContaining ==
    (mpc = "printed" /\ args.line_num # <<>>) =>
        LET n == args.line_num[1] IN
        /\ (\E i \in 0..(count - 1) : ContainsLine(i, n)) => ContainsLine(last.index, n)
        /\ (\A i \in 0..(count - 1) : LineOf(i) < n) => last.index = count - 1

\* ------------------------------------------- claims on the parser's fields
\* C21: all through a parse last_state is set exactly when state is Escape,
\* and the state it holds is a Text or an InPath state, never Escape; so the
\* escape arm always finds a state to resume (no fallback to an empty Text
\* state) and no parse ends in the panic of that arm.
C21_LastStateIffEscape ==
    /\ last_state # <<>> <=> state.kind = "Escape"
    /\ last_state # <<>> => last_state[1].kind \in {"Text", "InPath"}
    /\ state.kind \in {"Text", "InPath", "Escape"}
    /\ result.kind # "panic"

\* The parser is in Escape for the second time in one text, inside a
\* reference whose path already holds a character it escaped before.
C21_Witness ==
    /\ ppc = "chars"
    /\ state.kind = "Escape"
    /\ last_state # <<>>
    /\ last_state[1].kind = "InPath"
    /\ \E k \in 1..Len(last_state[1].s) : last_state[1].s[k] = RBRACKET

====
